---------------------------- MODULE Spec2Model ----------------------------
(***************************************************************************)
(* A model of mitali_jadhav.py, the contract-structuring pipeline: the     *)
(* normalizer, the effective-date extractor, the heading classifier, the   *)
(* inline bullet exploder, the clause segmenter, the section assembler and *)
(* the command-line entry point.                                           *)
(*                                                                         *)
(* Python strings are TLA+ strings.  The regular expressions of the source *)
(* are matched character by character: Chars(s) is the sequence of the     *)
(* one-character strings of s and Str(cs) is its inverse.  Inputs are      *)
(* ASCII; the only white space characters that occur are the blank, the    *)
(* tab and the line feed.  Positions are 1-based here, 0-based in Python.  *)
(***************************************************************************)
EXTENDS Integers, Sequences, FiniteSets, TLC

\* Python's None.  No input or result string of the model contains "~".
None == "~None~"

Chars(s) == [i \in 1..Len(s) |-> SubSeq(s, i, i)]

\* The concatenation of a sequence of sequences (or of strings), by halves.
RECURSIVE Flat(_, _)
Flat(pieces, empty) ==
    IF Len(pieces) = 0 THEN empty
    ELSE IF Len(pieces) = 1 THEN pieces[1]
    ELSE LET h == Len(pieces) \div 2
         IN Flat(SubSeq(pieces, 1, h), empty) \o Flat(SubSeq(pieces, h + 1, Len(pieces)), empty)

Str(cs) == Flat(cs, "")

Range(f) == {f[i] : i \in DOMAIN f}

Min(a, b) == IF a <= b THEN a ELSE b

UpperChars == Range(Chars("ABCDEFGHIJKLMNOPQRSTUVWXYZ"))
LowerChars == Range(Chars("abcdefghijklmnopqrstuvwxyz"))
DigitChars == Range(Chars("0123456789"))
SpaceChars == {" ", "\t", "\n"}

IsUpper(c) == c \in UpperChars
IsLower(c) == c \in LowerChars
IsAlpha(c) == IsUpper(c) \/ IsLower(c)
IsDigit(c) == c \in DigitChars
IsSpace(c) == c \in SpaceChars
\* \w of the regular expressions
IsWord(c) == IsAlpha(c) \/ IsDigit(c) \/ c = "_"

\* str.lower() and str.upper() of one character
LowerOf(c) ==
    IF IsUpper(c)
    THEN LET i == CHOOSE k \in 1..26 : Chars("ABCDEFGHIJKLMNOPQRSTUVWXYZ")[k] = c
         IN Chars("abcdefghijklmnopqrstuvwxyz")[i]
    ELSE c
UpperOf(c) ==
    IF IsLower(c)
    THEN LET i == CHOOSE k \in 1..26 : Chars("abcdefghijklmnopqrstuvwxyz")[k] = c
         IN Chars("ABCDEFGHIJKLMNOPQRSTUVWXYZ")[i]
    ELSE c

\* int() of one decimal digit
DigitVal(c) == (CHOOSE k \in 1..10 : Chars("0123456789")[k] = c) - 1

\* int(s) for a string of decimal digits
RECURSIVE IntOfChars(_)
IntOfChars(cs) ==
    IF cs = <<>> THEN 0
    ELSE 10 * IntOfChars(SubSeq(cs, 1, Len(cs) - 1)) + DigitVal(cs[Len(cs)])
IntOf(s) == IntOfChars(Chars(s))

\* str.isdigit()
str_isdigit(s) == s # "" /\ \A c \in Range(Chars(s)) : IsDigit(c)

\* The suffix of cs from position p on, and the prefix before position p.
From(cs, p) == SubSeq(cs, p, Len(cs))
Before(cs, p) == SubSeq(cs, 1, p - 1)

\* The first position >= p of cs whose character fails Class (Len(cs)+1 when none):
\* where a greedy run Class* that starts at p ends.
RECURSIVE SkipSpaces(_, _)
SkipSpaces(cs, p) ==
    IF p <= Len(cs) /\ IsSpace(cs[p]) THEN SkipSpaces(cs, p + 1) ELSE p
RECURSIVE SkipDigits(_, _)
SkipDigits(cs, p) ==
    IF p <= Len(cs) /\ IsDigit(cs[p]) THEN SkipDigits(cs, p + 1) ELSE p
RECURSIVE SkipAlpha(_, _)
SkipAlpha(cs, p) ==
    IF p <= Len(cs) /\ IsAlpha(cs[p]) THEN SkipAlpha(cs, p + 1) ELSE p

\* Whether the characters of lit occur in cs at position p (ci: ignoring case).
LitAt(cs, p, lit, ci) ==
    LET ls == Chars(lit)
    IN /\ p + Len(ls) - 1 <= Len(cs)
       /\ \A i \in 1..Len(ls) :
            IF ci THEN LowerOf(cs[p + i - 1]) = LowerOf(ls[i])
            ELSE cs[p + i - 1] = ls[i]

-----------------------------------------------------------------------------
(* Helpers: norm_ws, desquash, str.strip, str.split, str.title, str.isupper *)

\* str.strip()
RECURSIVE StripRight(_)
StripRight(cs) ==
    IF cs # <<>> /\ IsSpace(cs[Len(cs)])
    THEN StripRight(SubSeq(cs, 1, Len(cs) - 1)) ELSE cs
StripChars(cs) == StripRight(From(cs, SkipSpaces(cs, 1)))
str_strip(s) == Str(StripChars(Chars(s)))
\* str.rstrip()
StripRightStr(s) == Str(StripRight(Chars(s)))

\* WS_RE.sub(" ", s): every maximal run of white space becomes one blank
CollapseWs(cs) ==
    LET Keep(i) == ~IsSpace(cs[i]) \/ i = 1 \/ ~IsSpace(cs[i - 1])
        kept == SelectSeq([i \in 1..Len(cs) |-> i], Keep)
    IN [k \in 1..Len(kept) |-> IF IsSpace(cs[kept[k]]) THEN " " ELSE cs[kept[k]]]

norm_ws(s) == Str(StripChars(CollapseWs(Chars(s))))

\* Whether a blank goes between the neighbours a and b under each of the three
\* gap patterns: CAMEL_GAP_RE, LETTER_DIGIT_GAP_RE, DIGIT_LETTER_GAP_RE.
IsGap(rule, a, b) ==
    CASE rule = "camel" -> IsLower(a) /\ IsUpper(b)
      [] rule = "letter_digit" -> IsAlpha(a) /\ IsDigit(b)
      [] rule = "digit_letter" -> IsDigit(a) /\ IsAlpha(b)

\* RE.sub(r'\1 \2', s) for a pattern of two one-character groups.  No two
\* matches overlap in any of the three rules, since the second class excludes
\* the first, so every matching pair of neighbours is a match.
GapSub(rule, cs) ==
    Flat([i \in 1..Len(cs) |->
            IF i < Len(cs) /\ IsGap(rule, cs[i], cs[i + 1]) THEN <<cs[i], " ">>
            ELSE <<cs[i]>>], <<>>)

desquash(s) ==
    IF s = "" THEN s
    ELSE LET s1 == GapSub("camel", Chars(s))
             s2 == GapSub("letter_digit", s1)
             s3 == GapSub("digit_letter", s2)
         IN Str(s3)

\* str.split(): the maximal runs of non-blank characters
RECURSIVE SkipNonSpaces(_, _)
SkipNonSpaces(cs, p) ==
    IF p <= Len(cs) /\ ~IsSpace(cs[p]) THEN SkipNonSpaces(cs, p + 1) ELSE p
RECURSIVE SplitChars(_)
SplitChars(cs) ==
    LET b == SkipSpaces(cs, 1)
        e == SkipNonSpaces(cs, b)
    IN IF b > Len(cs) THEN <<>>
       ELSE <<Str(SubSeq(cs, b, e - 1))>> \o SplitChars(From(cs, e))
str_split(s) == SplitChars(Chars(s))

\* str.title(): a letter that follows a letter is lowered, any other is raised
str_title(s) ==
    LET cs == Chars(s)
    IN Str([i \in 1..Len(cs) |->
              IF i > 1 /\ IsAlpha(cs[i - 1]) THEN LowerOf(cs[i]) ELSE UpperOf(cs[i])])

\* str.isupper(): some cased character and no lower-case one
str_isupper(s) ==
    /\ \E c \in Range(Chars(s)) : IsUpper(c)
    /\ \A c \in Range(Chars(s)) : ~IsLower(c)

\* str.replace(old, new) for a one-character old
str_replace(s, old, new) ==
    LET cs == Chars(s)
    IN Str([i \in 1..Len(cs) |-> IF cs[i] = old THEN new ELSE cs[i]])

\* " ".join(parts)
RECURSIVE str_join(_)
str_join(parts) ==
    IF parts = <<>> THEN ""
    ELSE IF Len(parts) = 1 THEN parts[1]
    ELSE parts[1] \o " " \o str_join(Tail(parts))

-----------------------------------------------------------------------------
(* Sections & clauses: the heading classifier                               *)

\* TIME_DOT_RE.match at position p: \b(\d{1,2})\.(\d{2})\b.  The position after
\* the match, or 0.  The two lengths of the first group exclude each other.
TimeDotEnd(cs, p) ==
    LET n == SkipDigits(cs, p) - p
        d == p + n
    IN IF /\ (p = 1 \/ ~IsWord(cs[p - 1]))
          /\ n \in {1, 2}
          /\ d + 2 <= Len(cs)
          /\ cs[d] = "."
          /\ IsDigit(cs[d + 1]) /\ IsDigit(cs[d + 2])
          /\ (d + 3 > Len(cs) \/ ~IsWord(cs[d + 3]))
       THEN d + 3 ELSE 0

\* TIME_DOT_RE.sub(r'\1:\2', s) from position p on: the leftmost match at or
\* after p is rewritten and the scan goes on after it.
RECURSIVE TimeDotSub(_, _)
TimeDotSub(cs, p) ==
    LET starts == {q \in p..Len(cs) : TimeDotEnd(cs, q) # 0}
        b == CHOOSE q \in starts : \A r \in starts : q <= r
        e == TimeDotEnd(cs, b)
    IN IF starts = {} THEN From(cs, p)
       ELSE SubSeq(cs, p, e - 4) \o <<":">> \o SubSeq(cs, e - 2, e - 1)
               \o TimeDotSub(cs, e)

protect_times(s) == Str(TimeDotSub(Chars(s), 1))

\* TIME_LIKE_RE.match(token): ^(?:\d{1,2}[:\.]\d{2})(?:\s?(?:am|pm))?$, ignoring case
looks_like_time_token(token) ==
    LET cs == Chars(token)
        n == SkipDigits(cs, 1) - 1
        e == n + 4
        r == IF e <= Len(cs) /\ IsSpace(cs[e]) THEN e + 1 ELSE e
    IN /\ n \in {1, 2}
       /\ n + 3 <= Len(cs)
       /\ cs[n + 1] \in {":", "."}
       /\ IsDigit(cs[n + 2]) /\ IsDigit(cs[n + 3])
       /\ \/ e = Len(cs) + 1
          \/ /\ r + 1 = Len(cs)
             /\ (LitAt(cs, r, "am", TRUE) \/ LitAt(cs, r, "pm", TRUE))

\* [\.\)\-] of SEC_RE (the en and the em dash are not ASCII)
SecDelims == {".", ")", "-"}

\* \d+(?:\.\d+)* from position p: the position after the longest match (p: none)
RECURSIVE DottedEnd(_, _)
DottedEnd(cs, p) ==
    LET q == SkipDigits(cs, p)
    IN IF q = p THEN p
       ELSE IF q + 1 <= Len(cs) /\ cs[q] = "." /\ IsDigit(cs[q + 1])
            THEN DottedEnd(cs, q + 1)
            ELSE q

\* [IVX]+ from position p, ignoring case
RECURSIVE RomanEnd(_, _, _)
RomanEnd(cs, p, letters) ==
    IF p <= Len(cs) /\ UpperOf(cs[p]) \in letters THEN RomanEnd(cs, p + 1, letters) ELSE p

\* The title of SEC_RE after the numeral that ends before position q, a being
\* the first position at or after q that holds no white space: the position
\* where (.+) starts, or 0.  The delimiter is taken when white space and a
\* title follow it; otherwise white space must follow the numeral.
SecTitleStart(cs, q, a) ==
    IF /\ a + 1 <= Len(cs) /\ cs[a] \in SecDelims /\ IsSpace(cs[a + 1])
       /\ SkipSpaces(cs, a + 1) <= Len(cs)
    THEN SkipSpaces(cs, a + 1)
    ELSE IF a > q /\ a <= Len(cs) THEN a
    ELSE 0

\* The match of SEC_RE whose numeral is cs[p..q-1] and whose title starts at t
SecGroups(cs, p, q, t) ==
    IF q > p /\ t # 0
    THEN [ok |-> TRUE, num |-> Str(SubSeq(cs, p, q - 1)), ttl |-> Str(From(cs, t))]
    ELSE [ok |-> FALSE, num |-> "", ttl |-> ""]

\* The numeral of SEC_RE from position p: the position after it (p: none)
SecNumeralEnd(cs, p) ==
    IF p <= Len(cs) /\ IsDigit(cs[p]) THEN DottedEnd(cs, p)
    ELSE RomanEnd(cs, p, {"I", "V", "X"})

SecFromNumeral(cs, p, q) == SecGroups(cs, p, q, SecTitleStart(cs, q, SkipSpaces(cs, q)))

SecFrom(cs, p) == SecFromNumeral(cs, p, SecNumeralEnd(cs, p))

\* SEC_RE.match(line) for a line that norm_ws produced (single blanks, none at
\* either end): [ok, num, ttl] with m.group(1) and m.group(2).  An initial
\* Section or Article is always taken, since no numeral starts with S or A; the
\* numeral is the longest one, since what follows a shorter one is a digit, a
\* dot and a digit, or a letter, and neither is a delimiter followed by white
\* space.
SEC_RE_match(line) ==
    SecFrom(Chars(line),
            SkipSpaces(Chars(line),
                       IF LitAt(Chars(line), 1, "Section", TRUE)
                          \/ LitAt(Chars(line), 1, "Article", TRUE)
                       THEN 8 ELSE 1))

\* SEC_ALLCAPS_RE.match(t): ^[A-Z0-9 \-&,]{3,}$
SEC_ALLCAPS_RE_match(t) ==
    /\ Len(t) >= 3
    /\ \A c \in Range(Chars(t)) : IsUpper(c) \/ IsDigit(c) \/ c \in {" ", "-", "&", ","}

\* [A-Z][a-z]+ at position p: the position after it, or 0
CapWordEnd(cs, p) ==
    IF p + 1 <= Len(cs) /\ IsUpper(cs[p]) /\ IsLower(cs[p + 1])
    THEN LET e == SkipAlpha(cs, p + 1)
         IN IF \A i \in (p + 1)..(e - 1) : IsLower(cs[i]) THEN e ELSE 0
    ELSE 0

\* The number of words [A-Z][a-z]+, separated by white space, that make up cs
\* from position p to its end; 0 when it is not made of such words.
RECURSIVE CapWords(_, _)
CapWords(cs, p) ==
    LET e == CapWordEnd(cs, p)
    IN IF e = 0 THEN 0
       ELSE IF e > Len(cs) THEN 1
       ELSE LET n == SkipSpaces(cs, e)
                k == IF n > e THEN CapWords(cs, n) ELSE 0
            IN IF k = 0 THEN 0 ELSE k + 1

\* TITLE_CASE_HEADING_RE.match(line): ^(?:[A-Z][a-z]+(?:\s+[A-Z][a-z]+){0,6})$
TITLE_CASE_HEADING_RE_match(line) == CapWords(Chars(line), 1) \in 1..7

COMMON_SENTENCE_STARTS ==
    {"The", "This", "These", "Those", "A", "An", "In", "On", "At", "For", "From",
     "If", "Upon", "Whereas"}

\* The thresholds of likely_heading
MaxTitleChars == 120
MaxWordsNoColon == 14
MinSentenceNumber == 30
MaxHeadingWords == 12
MaxAllCapsWords == 16

\* Mutant of ShortEnough: the all-caps allowance is forgotten.
ShortEnough_NoAllCaps(t, words) == Len(words) <= MaxHeadingWords

\* The last two tests of likely_heading
ShortEnough(t, words) ==
    IF Len(words) <= MaxHeadingWords THEN TRUE
    ELSE IF SEC_ALLCAPS_RE_match(t) /\ Len(words) <= MaxAllCapsWords THEN TRUE
    ELSE FALSE

\* likely_heading after its first two tests, t being title.strip() and words
\* being t.split()
LikelyTitle(number, t, words) ==
    IF t # "" /\ Chars(t)[Len(t)] = "." THEN FALSE
    ELSE IF Len(t) > MaxTitleChars THEN FALSE
    ELSE IF words = <<>> THEN FALSE
    ELSE IF IsLower(Chars(words[1])[1]) THEN FALSE
    ELSE IF Len(words) > MaxWordsNoColon /\ ":" \notin Range(Chars(t)) THEN FALSE
    ELSE IF /\ number # "" /\ str_isdigit(number)
            /\ IntOf(number) >= MinSentenceNumber
            /\ words[1] \in COMMON_SENTENCE_STARTS THEN FALSE
    ELSE ShortEnough(t, words)

likely_heading(number, ttl) ==
    IF looks_like_time_token(number) THEN FALSE
    ELSE IF ttl = "" THEN FALSE
    ELSE LikelyTitle(number, str_strip(ttl), str_split(str_strip(ttl)))

-----------------------------------------------------------------------------
(* Sections & clauses: the clause patterns and the clause segmenter         *)

NoMatch == [ok |-> FALSE, label |-> "", rem |-> ""]

\* The result of a pattern whose label is cs[a..b] and whose \s+ or \s* starts
\* at position w: (.*) is what follows the white space, which the greedy
\* quantifier takes whole.
LabelMatch(cs, a, b, w, needSpace) ==
    IF needSpace /\ ~(w <= Len(cs) /\ IsSpace(cs[w])) THEN NoMatch
    ELSE [ok |-> TRUE, label |-> Str(SubSeq(cs, a, b)),
          rem |-> Str(From(cs, SkipSpaces(cs, w)))]

\* CLAUSE_RE[k - 1].match(l), k in 1..9
ClausePatternMatch(k, cs) ==
    LET n == Len(cs)
        paren == n >= 3 /\ cs[1] = "("
        r == RomanEnd(cs, 1, {"I", "V", "X"})
        rp == RomanEnd(cs, 2, {"I", "V", "X"})
        d == DottedEnd(cs, 1)
        g == SkipDigits(cs, 1)
        u == IF n >= 1 /\ IsUpper(cs[1])
             THEN CHOOSE e \in 2..(n + 1) :
                    /\ \A i \in 2..(e - 1) : IsUpper(cs[i]) \/ cs[i] = " "
                    /\ (e = n + 1 \/ ~(IsUpper(cs[e]) \/ cs[e] = " "))
             ELSE 0
    IN CASE k = 1 -> IF paren /\ IsLower(cs[2]) /\ cs[3] = ")"
                     THEN LabelMatch(cs, 2, 2, 4, TRUE) ELSE NoMatch
         [] k = 2 -> IF paren /\ IsUpper(cs[2]) /\ cs[3] = ")"
                     THEN LabelMatch(cs, 2, 2, 4, TRUE) ELSE NoMatch
         [] k = 3 -> IF paren /\ rp > 2 /\ rp <= n /\ cs[rp] = ")"
                     THEN LabelMatch(cs, 2, rp - 1, rp + 1, TRUE) ELSE NoMatch
         [] k = 4 -> IF n >= 2 /\ IsLower(cs[1]) /\ cs[2] = "."
                     THEN LabelMatch(cs, 1, 1, 3, TRUE) ELSE NoMatch
         [] k = 5 -> IF n >= 2 /\ IsUpper(cs[1]) /\ cs[2] = "."
                     THEN LabelMatch(cs, 1, 1, 3, TRUE) ELSE NoMatch
         [] k = 6 -> IF r > 1 /\ r <= n /\ cs[r] = "."
                     THEN LabelMatch(cs, 1, r - 1, r + 1, TRUE) ELSE NoMatch
         [] k = 7 -> IF d > 1 /\ "." \in Range(SubSeq(cs, 1, d - 1))
                     THEN LabelMatch(cs, 1, d - 1, d, TRUE) ELSE NoMatch
         [] k = 8 -> IF g > 1 /\ g <= n /\ cs[g] \in {".", ")"}
                     THEN LabelMatch(cs, 1, g - 1, g + 1, TRUE) ELSE NoMatch
         [] k = 9 -> IF u >= 4 /\ u <= n /\ cs[u] \in {":", "-"}
                     THEN LabelMatch(cs, 1, u - 1, u + 1, FALSE) ELSE NoMatch

NumClausePatterns == 9

\* The first pattern of CLAUSE_RE, in list order, that matches the line:
\* [ok, label, rem] with m.group(1) and m.group(2).
CLAUSE_RE_match(l) ==
    LET cs == Chars(l)
        hits == {k \in 1..NumClausePatterns : ClausePatternMatch(k, cs).ok}
    IN IF hits = {} THEN NoMatch
       ELSE ClausePatternMatch(CHOOSE k \in hits : \A j \in hits : k <= j, cs)

\* Mutant of flush_clause: the clause is emitted even with no parts.
flush_clause_EmitEmpty(st) ==
    [clauses |-> Append(st.clauses,
                        [text |-> norm_ws(str_join(st.cur_parts)),
                         label |-> st.cur_label,
                         index |-> Len(st.clauses)]),
     cur_label |-> "",
     cur_parts |-> <<>>]

\* flush_clause() on the segmenter's state [clauses, cur_label, cur_parts]
flush_clause(st) ==
    [clauses |-> IF st.cur_parts # <<>>
                 THEN Append(st.clauses,
                             [text |-> norm_ws(str_join(st.cur_parts)),
                              label |-> st.cur_label,
                              index |-> Len(st.clauses)])
                 ELSE st.clauses,
     cur_label |-> "",
     cur_parts |-> <<>>]

\* One iteration of the loop of segment_clauses over the line l
SegmentLine(st, l) ==
    LET m == CLAUSE_RE_match(l)
    IN IF m.ok
       THEN [flush_clause(st) EXCEPT
               !.cur_label = norm_ws(m.label),
               !.cur_parts = IF m.rem # "" THEN <<norm_ws(m.rem)>> ELSE <<>>]
       ELSE [st EXCEPT !.cur_parts = Append(st.cur_parts, l)]

RECURSIVE SegmentLoop(_, _)
SegmentLoop(st, lines) ==
    IF lines = <<>> THEN st
    ELSE SegmentLoop(SegmentLine(st, Head(lines)), Tail(lines))

\* Mutant of SchemaPass: the indices count from 1.
SchemaPass_FromOne(clauses) ==
    [i \in 1..Len(clauses) |->
       [text |-> norm_ws(clauses[i].text), label |-> clauses[i].label, index |-> i]]

\* The last loop of segment_clauses ("schema requirements")
SchemaPass(clauses) ==
    [i \in 1..Len(clauses) |->
       [text |-> norm_ws(clauses[i].text), label |-> clauses[i].label, index |-> i - 1]]

segment_clauses(lines) ==
    LET st0 == [clauses |-> <<>>, cur_label |-> "", cur_parts |-> <<>>]
    IN SchemaPass(flush_clause(SegmentLoop(st0, lines)).clauses)

-----------------------------------------------------------------------------
(* Sections & clauses: the inline bullet exploder                           *)

\* The enumerator token of INLINE_BULLET_SPLIT_RE at position p: the position
\* after it, or 0.  The three alternatives start with different characters.
BulletTokenEnd(cs, p) ==
    LET a == SkipAlpha(cs, p)
        pa == SkipAlpha(cs, p + 1)
        g == SkipDigits(cs, p)
    IN IF cs[p] = "("
       THEN IF pa > p + 1 /\ pa <= Len(cs) /\ cs[pa] = ")" THEN pa + 1 ELSE 0
       ELSE IF a > p
       THEN IF a <= Len(cs) /\ cs[a] \in {".", ")"} THEN a + 1 ELSE 0
       ELSE IF g > p
       THEN IF g <= Len(cs) /\ cs[g] \in {".", ")"} THEN g + 1 ELSE 0
       ELSE 0

\* INLINE_BULLET_SPLIT_RE.match at position p: the token stands at the start of
\* the line or after a colon or semicolon and one white space character, and
\* white space follows it.  [ok, start, label, end]: m.start(), m.group(1), m.end().
BulletMatchAt(cs, p) ==
    LET behind == p = 1 \/ (p >= 3 /\ cs[p - 2] \in {";", ":"} /\ IsSpace(cs[p - 1]))
        e == IF behind THEN BulletTokenEnd(cs, p) ELSE 0
    IN IF e # 0 /\ e <= Len(cs) /\ IsSpace(cs[e])
       THEN [ok |-> TRUE, start |-> p, label |-> Str(SubSeq(cs, p, e - 1)),
             end |-> SkipSpaces(cs, e)]
       ELSE [ok |-> FALSE, start |-> 0, label |-> "", end |-> 0]

\* list(INLINE_BULLET_SPLIT_RE.finditer(line)) from position p on
RECURSIVE BulletTokens(_, _)
BulletTokens(cs, p) ==
    LET starts == {q \in p..Len(cs) : BulletMatchAt(cs, q).ok}
        m == BulletMatchAt(cs, CHOOSE q \in starts : \A r \in starts : q <= r)
    IN IF starts = {} THEN <<>> ELSE <<m>> \o BulletTokens(cs, m.end)

\* The characters first_word.strip(...) removes (the ASCII ones)
FirstWordStrip == {"\"", "'", "(", ")", "[", "]", "{", "}", ".", ",", ";", ":"}

RECURSIVE StripSet(_, _)
StripSet(cs, set) ==
    IF cs # <<>> /\ cs[1] \in set THEN StripSet(Tail(cs), set)
    ELSE IF cs # <<>> /\ cs[Len(cs)] \in set THEN StripSet(SubSeq(cs, 1, Len(cs) - 1), set)
    ELSE cs

\* The early return of explode_inline_bullets: the line starts with a numeric
\* token and a common sentence start follows it.
LeadingNumberedSentence(cs, first) ==
    /\ first.start = 1
    /\ str_isdigit(Str(SubSeq(cs, 1, Len(first.label) - 1)))
    /\ LET body == str_split(Str(From(cs, first.end)))
           first_word == IF body = <<>> THEN "" ELSE body[1]
       IN Str(StripSet(Chars(first_word), FirstWordStrip)) \in COMMON_SENTENCE_STARTS

\* The fragment of token i: its label, a blank and the text up to the next token
BulletPart(cs, tokens, i) ==
    LET stop == IF i + 1 <= Len(tokens) THEN tokens[i + 1].start ELSE Len(cs) + 1
        body == norm_ws(Str(SubSeq(cs, tokens[i].end, stop - 1)))
    IN IF body # "" THEN <<tokens[i].label \o " " \o body>> ELSE <<>>

RECURSIVE BulletParts(_, _, _)
BulletParts(cs, tokens, i) ==
    IF i > Len(tokens) THEN <<>>
    ELSE BulletPart(cs, tokens, i) \o BulletParts(cs, tokens, i + 1)

explode_inline_bullets(line) ==
    LET cs == Chars(line)
        tokens == BulletTokens(cs, 1)
        pre == norm_ws(Str(Before(cs, tokens[1].start)))
    IN IF tokens = <<>> THEN <<line>>
       ELSE IF LeadingNumberedSentence(cs, tokens[1]) THEN <<line>>
       ELSE (IF pre # "" THEN <<pre>> ELSE <<>>) \o BulletParts(cs, tokens, 1)

-----------------------------------------------------------------------------
(* Sections & clauses: the section assembler                                *)

\* Python's truth value of an Optional[str]
Truthy(v) == v # None /\ v # ""

\* str.splitlines() for the line feed: the pieces between line feeds, without
\* an empty last piece.
RECURSIVE SplitLinesChars(_)
SplitLinesChars(cs) ==
    LET nls == {i \in 1..Len(cs) : cs[i] = "\n"}
        n == CHOOSE i \in nls : \A j \in nls : i <= j
    IN IF cs = <<>> THEN <<>>
       ELSE IF nls = {} THEN <<Str(cs)>>
       ELSE <<Str(Before(cs, n))>> \o SplitLinesChars(From(cs, n + 1))
splitlines(s) == SplitLinesChars(Chars(s))

\* [l for p in pages for l in p.splitlines()]
RECURSIVE PageLines(_)
PageLines(pp) ==
    IF pp = <<>> THEN <<>> ELSE splitlines(Head(pp)) \o PageLines(Tail(pp))

NonEmpty(l) == l # ""

\* The first statement of parse_sections, and the filter of the second: the
\* normalized non-empty lines before protect_times.
NormalizedLines(pp) ==
    LET ls == PageLines(pp)
    IN SelectSeq([i \in 1..Len(ls) |-> norm_ws(desquash(ls[i]))], NonEmpty)

\* raw_lines after the second statement of parse_sections
RawLines(pp) ==
    LET ls == NormalizedLines(pp)
    IN [i \in 1..Len(ls) |-> protect_times(ls[i])]

\* The length limits of the all-caps and the title-case heading
MaxAllCapsLineWords == 12
MaxTitleCaseWords == 7

\* What the loop body of parse_sections takes the line for, in the order of its
\* three tests, m being SEC_RE.match(line): [kind, num, ttl], kind "body" for a
\* line no test accepts.
ClassifyMatch(line, m) ==
    IF m.ok /\ likely_heading(m.num, norm_ws(m.ttl))
    THEN [kind |-> "numbered", num |-> m.num, ttl |-> norm_ws(m.ttl)]
    ELSE IF SEC_ALLCAPS_RE_match(line) /\ Len(str_split(line)) <= MaxAllCapsLineWords
    THEN [kind |-> "allcaps", num |-> None,
          ttl |-> IF str_isupper(line) THEN str_title(line) ELSE line]
    ELSE IF TITLE_CASE_HEADING_RE_match(line) /\ Len(str_split(line)) <= MaxTitleCaseWords
    THEN [kind |-> "titlecase", num |-> None, ttl |-> line]
    ELSE [kind |-> "body", num |-> None, ttl |-> ""]

Classify(line) == ClassifyMatch(line, SEC_RE_match(line))

\* expanded, in flush(): the fragments of the buffered body lines
RECURSIVE Expand(_)
Expand(body) ==
    IF body = <<>> THEN <<>>
    ELSE explode_inline_bullets(Head(body)) \o Expand(Tail(body))

\* Mutant of ResetAccumulators: the body buffer is not emptied.
ResetAccumulators_KeepBody(a) ==
    [a EXCEPT !.cur_title = None, !.cur_num = None]

\* The accumulators after a flush
ResetAccumulators(a) ==
    [a EXCEPT !.cur_title = None, !.cur_num = None, !.cur_body = <<>>]

\* The section flush() emits
FlushedSection(a) ==
    [title |-> norm_ws(a.cur_title), number |-> a.cur_num,
     clauses |-> segment_clauses(Expand(a.cur_body))]

\* flush() on the assembler's state [sections, cur_title, cur_num, cur_body]
flush(a) ==
    ResetAccumulators(
        IF Truthy(a.cur_title)
        THEN [a EXCEPT !.sections = Append(a.sections, FlushedSection(a))]
        ELSE a)

\* One iteration of the loop of parse_sections over the line, which the three
\* tests take for c
ScanClassified(a, line, c) ==
    IF c.kind # "body"
    THEN [flush(a) EXCEPT !.cur_num = c.num, !.cur_title = c.ttl]
    ELSE [a EXCEPT !.cur_title = IF Truthy(a.cur_title) THEN a.cur_title ELSE "Preamble",
                   !.cur_body = Append(a.cur_body, line)]

ScanLine(a, line) == ScanClassified(a, line, Classify(line))

RECURSIVE ScanLoop(_, _)
ScanLoop(a, lines) ==
    IF lines = <<>> THEN a ELSE ScanLoop(ScanLine(a, Head(lines)), Tail(lines))

EmptyAssembler ==
    [sections |-> <<>>, cur_title |-> None, cur_num |-> None, cur_body |-> <<>>]

parse_sections(pp) == flush(ScanLoop(EmptyAssembler, RawLines(pp))).sections

-----------------------------------------------------------------------------
(* The state: one call of parse_sections, followed step by step, and one    *)
(* call of the function a specification is about, args to result.          *)

VARIABLES
    pc,          \* where the call stands: "start", "scan", "done"; "call", "return"
    pages,       \* parse_sections: the argument
    raw_lines,   \* parse_sections: the normalized lines
    pos,         \* parse_sections: the position of the loop in raw_lines
    sections, cur_title, cur_num, cur_body,   \* parse_sections: the accumulators
    args,        \* the arguments of the function called
    result       \* what it returned

vars == <<pc, pages, raw_lines, pos, sections, cur_title, cur_num, cur_body, args, result>>

asmVars == <<pages, raw_lines, pos, sections, cur_title, cur_num, cur_body>>

Assembler ==
    [sections |-> sections, cur_title |-> cur_title, cur_num |-> cur_num,
     cur_body |-> cur_body]

SetAssembler(a) ==
    /\ sections' = a.sections
    /\ cur_title' = a.cur_title
    /\ cur_num' = a.cur_num
    /\ cur_body' = a.cur_body

\* The physical lines the documents are made of
LinePool ==
    {"Section2.3  Payment Terms",
     "35. The Buyer shall pay",
     "40 A NOTICE",
     "Governing Law",
     "1.2.10 Scope",
     "Tenant shall: a. pay rent; b. keep premises",
     "NOTICE:",
     "and pays fees at 9.30 daily.",
     "  "}

\* The longest document, in lines
MaxLines == 3

RECURSIVE SeqsUpTo(_, _)
SeqsUpTo(S, n) ==
    IF n = 0 THEN {<<>>}
    ELSE LET shorter == SeqsUpTo(S, n - 1)
         IN shorter \cup {Append(q, e) : q \in {r \in shorter : Len(r) = n - 1}, e \in S}

\* "\n".join(lines)
RECURSIVE JoinLines(_)
JoinLines(ls) ==
    IF ls = <<>> THEN ""
    ELSE IF Len(ls) = 1 THEN ls[1]
    ELSE ls[1] \o "\n" \o JoinLines(Tail(ls))

\* The lines of a document laid out on two pages
PagesOf(ls) ==
    LET h == (Len(ls) + 1) \div 2
    IN <<JoinLines(SubSeq(ls, 1, h)), JoinLines(SubSeq(ls, h + 1, Len(ls)))>>

\* The documents parse_sections is called with
Documents == SeqsUpTo(LinePool, MaxLines)

AsmIdle ==
    /\ pages = <<>> /\ raw_lines = <<>> /\ pos = 1
    /\ sections = <<>> /\ cur_title = None /\ cur_num = None /\ cur_body = <<>>

InitSections ==
    /\ pc = "start"
    /\ \E ls \in Documents : pages = PagesOf(ls)
    /\ raw_lines = <<>> /\ pos = 1
    /\ sections = <<>> /\ cur_title = None /\ cur_num = None /\ cur_body = <<>>
    /\ args = <<>> /\ result = None

\* The two statements of parse_sections that normalize the lines
Normalize ==
    /\ pc = "start"
    /\ raw_lines' = RawLines(pages)
    /\ pc' = "scan"
    /\ UNCHANGED <<pages, pos, sections, cur_title, cur_num, cur_body, args, result>>

\* One iteration of the loop
Scan ==
    /\ pc = "scan"
    /\ pos <= Len(raw_lines)
    /\ SetAssembler(ScanLine(Assembler, raw_lines[pos]))
    /\ pos' = pos + 1
    /\ UNCHANGED <<pc, pages, raw_lines, args, result>>

\* The flush() after the loop, and the return
FinalFlush ==
    /\ pc = "scan"
    /\ pos > Len(raw_lines)
    /\ SetAssembler(flush(Assembler))
    /\ pc' = "done"
    /\ UNCHANGED <<pages, raw_lines, pos, args, result>>

NextSections == Normalize \/ Scan \/ FinalFlush

SpecSections == InitSections /\ [][NextSections]_vars

-----------------------------------------------------------------------------
(* The section assembler: claims                                            *)

\* The lines the loop has gone through
Scanned == pos - 1

\* What the three tests take each scanned line for
ScannedKinds == [i \in 1..Scanned |-> Classify(raw_lines[i])]

\* The scanned lines that open a section, cl being ScannedKinds: the accepted
\* headings, and the first line, which opens the Preamble when it is no heading.
GroupStarts(cl) == {i \in DOMAIN cl : i = 1 \/ cl[i].kind # "body"}

\* The k-th of them in document order
GroupStart(cl, k) ==
    CHOOSE i \in GroupStarts(cl) : Cardinality({j \in GroupStarts(cl) : j <= i}) = k

\* The last scanned line before the next section opens
GroupEnd(cl, k) ==
    IF k < Cardinality(GroupStarts(cl)) THEN GroupStart(cl, k + 1) - 1 ELSE Len(cl)

\* The section that opens at line i and ends with line e: its title, its
\* number, and the lines between its opening and the next, the heading line
\* left out.
GroupAt(cl, i, e) ==
    IF cl[i].kind # "body"
    THEN [title |-> cl[i].ttl, number |-> cl[i].num, body |-> SubSeq(raw_lines, i + 1, e)]
    ELSE [title |-> "Preamble", number |-> None, body |-> SubSeq(raw_lines, i, e)]

\* The sections the scanned lines are cut into
Groups(cl) ==
    [k \in 1..Cardinality(GroupStarts(cl)) |-> GroupAt(cl, GroupStart(cl, k), GroupEnd(cl, k))]

ScannedGroups == Groups(ScannedKinds)

PartitionedInto(gs) ==
    /\ Len(sections) = IF pc = "done" \/ gs = <<>> THEN Len(gs) ELSE Len(gs) - 1
    /\ \A k \in 1..Len(sections) :
         /\ sections[k].title = gs[k].title
         /\ sections[k].title # ""
         /\ sections[k].number = gs[k].number
         /\ sections[k].clauses = segment_clauses(Expand(gs[k].body))
    /\ (pc = "scan" /\ gs # <<>>) =>
         /\ cur_title = gs[Len(gs)].title
         /\ cur_num = gs[Len(gs)].number
         /\ cur_body = gs[Len(gs)].body
    /\ (pc # "scan" \/ gs = <<>>) =>
         cur_title = None /\ cur_num = None /\ cur_body = <<>>
    /\ pc = "done" => Scanned = Len(raw_lines)

\* C7: at every point of the scan the sections emitted so far, followed by the
\* section being accumulated, are the scanned lines cut at the accepted
\* headings, in document order: one section per accepted heading, with its
\* title and number, plus a leading Preamble without a number exactly when the
\* first line is no heading; the body of each is the run of lines up to the
\* next heading, nothing dropped, repeated or carried over, and its clauses are
\* those of that body; every title is non-empty; after the last flush nothing
\* is left in the accumulators.
C7_SectionsPartitionDocument == PartitionedInto(ScannedGroups)

\* C7, witness: a finished document of a Preamble and a numbered section, each
\* with clauses.
C7_Witness ==
    /\ pc = "done"
    /\ Len(sections) = 2
    /\ sections[1].title = "Preamble" /\ sections[1].number = None
    /\ sections[1].clauses # <<>>
    /\ sections[2].number # None
    /\ sections[2].clauses # <<>>

\* The lines of a body that open a clause
LabelLines(lines) == {i \in 1..Len(lines) : CLAUSE_RE_match(lines[i]).ok}

\* C1: in every emitted section, clause k of the list (counting from 0) has
\* index k.
C1_IndexContiguity ==
    \A s \in 1..Len(sections) :
        \A k \in 1..Len(sections[s].clauses) : sections[s].clauses[k].index = k - 1

\* C1, witness: a section of at least three clauses whose body had a label line
\* that gave no clause (an empty one, dropped) and a continuation line.
C1_Witness ==
    /\ pc = "done"
    /\ \E s \in 1..Len(sections) :
         LET body == Expand(ScannedGroups[s].body)
         IN /\ Len(sections[s].clauses) >= 3
            /\ Cardinality(LabelLines(body)) > Len(sections[s].clauses)
            /\ Len(body) > Cardinality(LabelLines(body))

\* A line of the numbered-heading shape whose number is a decimal number of at
\* least 30 and whose title starts with a common sentence start
IsNumberedSentence(line) ==
    LET m == SEC_RE_match(line)
        words == str_split(norm_ws(m.ttl))
    IN /\ m.ok
       /\ str_isdigit(m.num) /\ IntOf(m.num) >= MinSentenceNumber
       /\ words # <<>> /\ words[1] \in COMMON_SENTENCE_STARTS

\* C2: a line of the numbered-heading shape with a number of at least 30 and a
\* title that starts with a common sentence start never starts a section: the
\* iteration that scans it emits nothing and appends it to the body of the
\* current section, or of a Preamble it opens.
C2_HeadingSuppression ==
    [][(pc = "scan" /\ pos <= Len(raw_lines) /\ IsNumberedSentence(raw_lines[pos]))
         => /\ sections' = sections
            /\ cur_body' = Append(cur_body, raw_lines[pos])
            /\ cur_num' = cur_num
            /\ cur_title' = IF Truthy(cur_title) THEN cur_title ELSE "Preamble"]_vars

\* The line of raw_lines[i] before protect_times rewrote it
LineAsWritten(i) == NormalizedLines(pages)[i]

\* A line that is a decimal or dotted-decimal numeral, an optional delimiter,
\* white space and a title that passes the acceptance filter
IsNumeralHeading(line) ==
    LET m == SEC_RE_match(line)
    IN /\ m.ok
       /\ IsDigit(Chars(line)[1])
       /\ likely_heading(m.num, norm_ws(m.ttl))

\* C9: every line that is a numeral, an optional delimiter, white space and a
\* title that passes the acceptance filter starts a section whose number is
\* the numeral as written and whose title is that title.
C9_NumberedHeadingsKeepNumeral ==
    [][(pc = "scan" /\ pos <= Len(raw_lines) /\ IsNumeralHeading(LineAsWritten(pos)))
         => /\ cur_num' = SEC_RE_match(LineAsWritten(pos)).num
            /\ cur_title' = norm_ws(SEC_RE_match(LineAsWritten(pos)).ttl)
            /\ cur_body' = <<>>]_vars
-----------------------------------------------------------------------------
(* One call of a function: args to result                                   *)

\* The call returns r
Return(r) ==
    /\ pc = "call"
    /\ result' = r
    /\ pc' = "return"
    /\ UNCHANGED <<pages, raw_lines, pos, sections, cur_title, cur_num, cur_body, args>>

-----------------------------------------------------------------------------
(* segment_clauses                                                          *)

\* The lines segment_clauses is called with
ClauseLinePool ==
    {"a. pay rent",
     "TERM-",
     "NOTICE:",
     "TERM - ends in May",
     "1.2 Scope of work",
     "and more text",
     "iv. fourth"}

\* The longest list of lines
MaxClauseLines == 3

ClauseInputs == SeqsUpTo(ClauseLinePool, MaxClauseLines)

InitClauses ==
    /\ pc = "call" /\ AsmIdle /\ result = None
    /\ args \in ClauseInputs

CallSegmentClauses == Return(segment_clauses(args))

NextClauses == CallSegmentClauses

SpecClauses == InitClauses /\ [][NextClauses]_vars

\* The lines that open a group: the label lines, and the first line, which
\* opens the unlabeled group when it is no label line.
ClauseStarts(lines) == LabelLines(lines) \cup (IF lines = <<>> THEN {} ELSE {1})

ClauseStart(lines, k) ==
    CHOOSE i \in ClauseStarts(lines) : Cardinality({j \in ClauseStarts(lines) : j <= i}) = k

ClauseEnd(lines, k) ==
    IF k < Cardinality(ClauseStarts(lines)) THEN ClauseStart(lines, k + 1) - 1
    ELSE Len(lines)

\* The group that opens at line i and ends with line e: the captured label and
\* the pieces of text, which are the remainder of the label line, if it has
\* one, and the lines that follow.
ClauseGroupAt(lines, i, e) ==
    LET m == CLAUSE_RE_match(lines[i])
    IN IF m.ok
       THEN [label |-> norm_ws(m.label),
             parts |-> (IF m.rem # "" THEN <<m.rem>> ELSE <<>>) \o SubSeq(lines, i + 1, e)]
       ELSE [label |-> "", parts |-> SubSeq(lines, i, e)]

ClauseGroups(lines) ==
    [k \in 1..Cardinality(ClauseStarts(lines)) |->
       ClauseGroupAt(lines, ClauseStart(lines, k), ClauseEnd(lines, k))]

HasParts(g) == g.parts # <<>>

\* The clauses of a sequence of groups, one per group
ClausesOf(gs) ==
    [k \in 1..Len(gs) |->
       [text |-> norm_ws(str_join(gs[k].parts)), label |-> gs[k].label, index |-> k - 1]]

\* C10 as claimed: every label line gives exactly one clause, which bears its
\* label and holds its text and the lines up to the next label line, and the
\* lines before the first label line give one unlabeled clause: one clause per
\* label line, plus one if the first line is no label line.
C10_OneClausePerLabelLine ==
    pc = "return" =>
        /\ result = ClausesOf(ClauseGroups(args))
        /\ Len(result) = Cardinality(LabelLines(args))
                           + (IF args # <<>> /\ 1 \notin LabelLines(args) THEN 1 ELSE 0)

\* C10, amended: a label line whose remainder is empty and which another label
\* line or the end of the list follows directly gives no clause; every other
\* label line gives exactly one clause, which bears its label and holds its
\* text and the lines up to the next label line, in order, and the lines
\* before the first label line give one unlabeled clause.
C10_ClausesOfNonEmptyGroups ==
    pc = "return" => result = ClausesOf(SelectSeq(ClauseGroups(args), HasParts))

\* C10, witness: a list with a label line that gives no clause and a label
\* line with a continuation line, and one clause fewer than groups.
C10_Witness ==
    /\ pc = "return"
    /\ \E k \in 1..Len(ClauseGroups(args)) : ~HasParts(ClauseGroups(args)[k])
    /\ \E k \in 1..Len(ClauseGroups(args)) :
         ClauseGroups(args)[k].label # "" /\ Len(ClauseGroups(args)[k].parts) = 2
    /\ Len(result) = Len(ClauseGroups(args)) - 1

-----------------------------------------------------------------------------
(* explode_inline_bullets                                                   *)

\* The text before the enumerators
BulletPreambles == {"Tenant shall:", "The Landlord must;"}

\* The enumerators: the token as written, its label, and its text
BulletItems ==
    {[token |-> "a.", label |-> "a", body |-> "pay rent"],
     [token |-> "b.", label |-> "b", body |-> "maintain premises"],
     [token |-> "(i)", label |-> "i", body |-> "insure the premises"],
     [token |-> "2)", label |-> "2", body |-> "give notice"]}

\* What stands between an enumerator's text and the next enumerator
BulletSeparators == {" ", "; "}

\* The most enumerators in a line
MaxBulletItems == 3

BulletInputs ==
    {[pre |-> p, items |-> it, sep |-> sp] :
        p \in BulletPreambles,
        it \in {q \in SeqsUpTo(BulletItems, MaxBulletItems) : Len(q) >= 2},
        sp \in BulletSeparators}

\* The text of enumerator k as it stands in the line, up to the next token
ItemText(a, k) ==
    a.items[k].body \o (IF k < Len(a.items) THEN StripRightStr(a.sep) ELSE "")

RECURSIVE ItemsLine(_, _)
ItemsLine(a, k) ==
    IF k > Len(a.items) THEN ""
    ELSE a.items[k].token \o " " \o a.items[k].body
           \o (IF k < Len(a.items) THEN a.sep ELSE "") \o ItemsLine(a, k + 1)

\* The body line: the preamble, a blank, and the enumerators with their texts
BulletLine(a) == a.pre \o " " \o ItemsLine(a, 1)

InitBullets ==
    /\ pc = "call" /\ AsmIdle /\ result = None
    /\ args \in BulletInputs

\* The line goes through explode_inline_bullets and, as in flush(), its
\* fragments through segment_clauses.
CallExplode ==
    Return([fragments |-> explode_inline_bullets(BulletLine(args)),
            clauses |-> segment_clauses(explode_inline_bullets(BulletLine(args)))])

NextBullets == CallExplode

SpecBullets == InitBullets /\ [][NextBullets]_vars

\* C3: the preamble comes out as a fragment of its own, followed by exactly
\* one fragment per enumerator, "<label> <text up to the next token>", and the
\* clauses of the fragments are one per enumerator, with its label.
C3_InlineBulletExplosion ==
    pc = "return" =>
        /\ result.fragments =
             <<args.pre>> \o [k \in 1..Len(args.items) |->
                                args.items[k].label \o " " \o ItemText(args, k)]
        /\ \E first \in 1..Len(result.clauses) :
             /\ Len(result.clauses) = first + Len(args.items) - 1
             /\ \A k \in 1..Len(args.items) :
                  result.clauses[first + k - 1].label = args.items[k].label

-----------------------------------------------------------------------------
(* likely_heading                                                           *)

HeadingNumbers == {"3", "29", "30", "35", "2.3", "9.30", "IV"}
TitleFirstWords == {"The", "Payment", "payment", "TERMS", "A", "NOTE:"}
TitleFillers == {"of", "AND", "B:", "Indemnification"}
TitleEndings == {"", "."}

\* The most words in a title
MaxTitleWords == 17

\* The title of a first word, n more words and an ending
TitleOf(first, filler, n, ending) ==
    str_join(<<first>> \o [i \in 1..n |-> filler]) \o ending

HeadingTitles ==
    {"", " "} \cup
    {TitleOf(f, w, n, e) :
        f \in TitleFirstWords, w \in TitleFillers, n \in 0..(MaxTitleWords - 1),
        e \in TitleEndings}

InitHeading ==
    /\ pc = "call" /\ AsmIdle /\ result = None
    /\ args \in {[number |-> n, title |-> t] : n \in HeadingNumbers, t \in HeadingTitles}

CallLikelyHeading == Return(likely_heading(args.number, args.title))

NextHeading == CallLikelyHeading

SpecHeading == InitHeading /\ [][NextHeading]_vars

WordCount(t) == Len(str_split(t))

\* The rejection rules the claim states: a time-like number, an empty title, a
\* title that ends with a period, a title of more than 120 characters, more
\* than 14 words without a colon, a number of at least 30 with a sentence
\* start as first word.
StatedRejection(number, t) ==
    \/ looks_like_time_token(number)
    \/ t = ""
    \/ Chars(t)[Len(t)] = "."
    \/ Len(t) > 120
    \/ (WordCount(t) > 14 /\ ":" \notin Range(Chars(t)))
    \/ /\ str_isdigit(number) /\ IntOf(number) >= 30
       /\ str_split(t)[1] \in COMMON_SENTENCE_STARTS

\* C8 as claimed: a pair that trips no stated rejection rule is accepted
\* exactly when the title has at most 12 words, or at most 16 and is fully
\* upper-case.
C8_AcceptanceDecision ==
    (pc = "return" /\ ~StatedRejection(args.number, str_strip(args.title))) =>
        (result <=> \/ WordCount(args.title) <= 12
                    \/ (WordCount(args.title) <= 16 /\ str_isupper(args.title)))

\* The characters of an all-caps title: upper-case letters, digits, blanks,
\* "-", "&" and ","
OnlyCapsCharacters(t) ==
    \A c \in Range(Chars(t)) : IsUpper(c) \/ IsDigit(c) \/ c \in {" ", "-", "&", ","}

\* C8, amended: a title whose first character is a lower-case letter is
\* rejected too; a pair that trips none of the rejection rules, this one
\* included, is accepted exactly when the title has at most 12 words, or at
\* most 16 and consists of upper-case letters, digits, blanks, "-", "&" and
\* "," only.
C8_AcceptanceDecisionAmended ==
    pc = "return" =>
        LET t == str_strip(args.title)
        IN IF StatedRejection(args.number, t) \/ IsLower(Chars(t)[1])
           THEN result = FALSE
           ELSE result <=> \/ WordCount(t) <= 12
                           \/ (WordCount(t) <= 16 /\ OnlyCapsCharacters(t))

\* C8, witness: an all-caps title of 13 or 14 words is accepted, past the limit
\* of 12.
C8_Witness ==
    /\ pc = "return"
    /\ result = TRUE
    /\ WordCount(args.title) > 12
    /\ OnlyCapsCharacters(args.title)

-----------------------------------------------------------------------------
(* Effective date                                                           *)

\* DATE_PATTERNS, each as the phrases that anchor it and the form of the date
\* it captures: "long" for [A-Za-z]{3,9}\s+\d{1,2},\s+\d{4}, "iso" for
\* \d{4}-\d{2}-\d{2}, "bare" for the latter between word boundaries.
DATE_PATTERNS ==
    <<[anchors |-> {"Effective Date"}, form |-> "long"],
      [anchors |-> {"Effective as of"}, form |-> "long"],
      [anchors |-> {"made and entered as of", "made as of"}, form |-> "long"],
      [anchors |-> {"dated"}, form |-> "long"],
      [anchors |-> {"Agreement Date"}, form |-> "long"],
      [anchors |-> {"Agreement Date"}, form |-> "iso"],
      [anchors |-> {"Effective Date"}, form |-> "iso"],
      [anchors |-> {""}, form |-> "bare"]>>

\* \b between positions p - 1 and p of cs
WordBoundary(cs, p) ==
    (p > 1 /\ p - 1 <= Len(cs) /\ IsWord(cs[p - 1])) # (p <= Len(cs) /\ IsWord(cs[p]))

\* Where a greedy run [: ]* that starts at p ends
RECURSIVE SkipColonsBlanks(_, _)
SkipColonsBlanks(cs, p) ==
    IF p <= Len(cs) /\ cs[p] \in {":", " "} THEN SkipColonsBlanks(cs, p + 1) ELSE p

\* Where \bphrase\b[: ]* ends when it starts at p, 0 when it does not match
AnchorEnd(cs, p, phrase) ==
    IF /\ WordBoundary(cs, p)
       /\ LitAt(cs, p, phrase, TRUE)
       /\ WordBoundary(cs, p + Len(phrase))
    THEN SkipColonsBlanks(cs, p + Len(phrase))
    ELSE 0

\* Where \d{n} ends when it starts at p, 0 when it does not match
DigitsEnd(cs, p, n) ==
    IF p > 0 /\ p + n - 1 <= Len(cs) /\ \A i \in p..(p + n - 1) : IsDigit(cs[i])
    THEN p + n ELSE 0

\* Where the literal character c ends when it stands at p, 0 otherwise
CharEnd(cs, p, c) == IF p > 0 /\ p <= Len(cs) /\ cs[p] = c THEN p + 1 ELSE 0

\* Where \d{4}-\d{2}-\d{2} ends when it starts at p, 0 when it does not match
IsoEnd(cs, p) ==
    DigitsEnd(cs, CharEnd(cs, DigitsEnd(cs, CharEnd(cs, DigitsEnd(cs, p, 4), "-"), 2), "-"), 2)

\* Where a run Class+ of between lo and hi characters ends, which began at p
\* and runs up to e, 0 when the run has another length
RunEnd(p, e, lo, hi) == IF p > 0 /\ e - p >= lo /\ e - p <= hi THEN e ELSE 0

\* Where \s+ ends when it starts at p, 0 when it does not match
SpacesEnd(cs, p) == IF p > 0 /\ SkipSpaces(cs, p) > p THEN SkipSpaces(cs, p) ELSE 0

\* Where \d{1,2}, ends when it starts at p, 0 when it does not match
DayEnd(cs, p) ==
    IF p > 0 THEN CharEnd(cs, RunEnd(p, SkipDigits(cs, p), 1, 2), ",") ELSE 0

\* Where [A-Za-z]{3,9}\s+\d{1,2},\s+\d{4} ends when it starts at p, 0 when it
\* does not match
LongDateEnd(cs, p) ==
    DigitsEnd(cs, SpacesEnd(cs, DayEnd(cs, SpacesEnd(cs, RunEnd(p, SkipAlpha(cs, p), 3, 9)))), 4)

\* Where the date of a pattern ends when it starts at p, 0 when it does not
\* match
DateEnd(cs, p, form) ==
    IF p = 0 THEN 0
    ELSE IF form = "long" THEN LongDateEnd(cs, p)
    ELSE IF form = "iso" THEN IsoEnd(cs, p)
    ELSE IF IsoEnd(cs, p) > 0 /\ WordBoundary(cs, IsoEnd(cs, p)) THEN IsoEnd(cs, p)
    ELSE 0

\* Where group 1 of a pattern starts when the pattern matches at p, 0 when it
\* does not match
GroupStartAt(cs, p, pat) ==
    IF \E a \in pat.anchors :
         AnchorEnd(cs, p, a) > 0 /\ DateEnd(cs, AnchorEnd(cs, p, a), pat.form) > 0
    THEN LET a == CHOOSE a \in pat.anchors :
                    AnchorEnd(cs, p, a) > 0 /\ DateEnd(cs, AnchorEnd(cs, p, a), pat.form) > 0
         IN AnchorEnd(cs, p, a)
    ELSE 0

\* The positions at which a pattern matches
MatchStarts(cs, pat) == {p \in 1..Len(cs) : GroupStartAt(cs, p, pat) > 0}

\* Group 1 of the match that starts at p
GroupOne(cs, g, pat) == Str(SubSeq(cs, g, DateEnd(cs, g, pat.form) - 1))

\* re.search(pat, txt, flags=re.I): the leftmost match, its group 1
FirstMatch(cs, pat, starts) ==
    IF starts = {} THEN [ok |-> FALSE, date_str |-> ""]
    ELSE [ok |-> TRUE,
          date_str |-> str_strip(GroupOne(cs,
                          GroupStartAt(cs, CHOOSE p \in starts : \A q \in starts : p <= q, pat),
                          pat))]

re_search(pat, cs) == FirstMatch(cs, pat, MatchStarts(cs, pat))

\* re.match(r"^\d{4}-\d{2}-\d{2}$", date_str)
IsIsoToken(date_str) ==
    Len(date_str) \in {10, 11} /\ IsoEnd(Chars(date_str), 1) = 11
      /\ (Len(date_str) = 11 => Chars(date_str)[11] = "\n")

MONTHS ==
    <<"january", "february", "march", "april", "may", "june", "july", "august",
      "september", "october", "november", "december">>

Lowered(s) == Str([i \in 1..Len(s) |-> LowerOf(Chars(s)[i])])

\* The month a word names, 0 when it names none; abbr: the abbreviations of
\* three letters count
MonthOf(word, abbr) ==
    LET w == Lowered(word)
        named == {m \in 1..12 : MONTHS[m] = w \/ (abbr /\ SubSeq(MONTHS[m], 1, 3) = w)}
    IN IF named = {} THEN 0 ELSE CHOOSE m \in named : TRUE

IsLeap(y) == y % 4 = 0 /\ (y % 100 # 0 \/ y % 400 = 0)

DaysIn(y, m) ==
    IF m = 2 THEN (IF IsLeap(y) THEN 29 ELSE 28)
    ELSE IF m \in {4, 6, 9, 11} THEN 30 ELSE 31

\* datetime(y, m, d): the date, or the failure to make one
MakeDate(y, m, d) ==
    IF y >= 1 /\ m \in 1..12 /\ d >= 1 /\ d <= DaysIn(y, m)
    THEN [ok |-> TRUE, y |-> y, m |-> m, d |-> d]
    ELSE [ok |-> FALSE, y |-> 0, m |-> 0, d |-> 0]

\* The year, month and day of a string of the form \d{4}-\d{2}-\d{2}
IsoFields(cs) ==
    [y |-> IntOfChars(SubSeq(cs, 1, 4)), m |-> IntOfChars(SubSeq(cs, 6, 7)),
     d |-> IntOfChars(SubSeq(cs, 9, 10))]

\* The month word, day and year of a string of the long form
LongFields(cs) ==
    [word |-> Str(SubSeq(cs, 1, SkipAlpha(cs, 1) - 1)),
     d |-> IntOfChars(SubSeq(cs, SkipSpaces(cs, SkipAlpha(cs, 1)),
                             SkipDigits(cs, SkipSpaces(cs, SkipAlpha(cs, 1))) - 1)),
     y |-> IntOfChars(SubSeq(cs, Len(cs) - 3, Len(cs)))]

LongDate(f, abbr) == MakeDate(f.y, MonthOf(f.word, abbr), f.d)

\* datetime.strptime(date_str, "%B %d, %Y") for a captured date: a full month
\* name, a day and a year that make up a date; any other string raises.
strptime(date_str) ==
    IF LongDateEnd(Chars(date_str), 1) = Len(date_str) + 1
    THEN LongDate(LongFields(Chars(date_str)), FALSE)
    ELSE MakeDate(0, 0, 0)

IsoDate(f) == MakeDate(f.y, f.m, f.d)

\* date_parser.parse(date_str, fuzzy=True) for a captured date whose month is
\* a month's name or abbreviation or a number: the date when the fields make
\* one up, else the parser raises.
date_parser_parse(date_str) ==
    IF IsoEnd(Chars(date_str), 1) = Len(date_str) + 1
    THEN IsoDate(IsoFields(Chars(date_str)))
    ELSE LongDate(LongFields(Chars(date_str)), TRUE)

Digit(n) == SubSeq("0123456789", n + 1, n + 1)

\* dt.strftime("%Y-%m-%d") for a year of four digits
strftime(dt) ==
    Digit(dt.y \div 1000) \o Digit((dt.y \div 100) % 10) \o Digit((dt.y \div 10) % 10)
      \o Digit(dt.y % 10) \o "-" \o Digit(dt.m \div 10) \o Digit(dt.m % 10)
      \o "-" \o Digit(dt.d \div 10) \o Digit(dt.d % 10)

\* Mutant of OnParseError: a date that fails to parse ends the search.
OnParseError_GiveUp(date_str, later) ==
    IF IsIsoToken(date_str) THEN date_str ELSE None

\* The except branch: the raw token if it has the ISO shape, else what the
\* rest of the loop returns
OnParseError(date_str, later) ==
    IF IsIsoToken(date_str) THEN date_str ELSE later

\* The try block on a parsed date
ParsedDate(dt, date_str, later) ==
    IF dt.ok THEN strftime(dt) ELSE OnParseError(date_str, later)

\* The loop body on the result of the search
TryMatch(m, have_dateutil, later) ==
    IF ~m.ok THEN later
    ELSE ParsedDate(IF have_dateutil THEN date_parser_parse(m.date_str)
                    ELSE strptime(m.date_str),
                    m.date_str, later)

\* The loop of find_effective_date from pattern k on
RECURSIVE FindFrom(_, _, _)
FindFrom(cs, have_dateutil, k) ==
    IF k > Len(DATE_PATTERNS) THEN None
    ELSE TryMatch(re_search(DATE_PATTERNS[k], cs), have_dateutil,
                  FindFrom(cs, have_dateutil, k + 1))

find_effective_date(all_text, have_dateutil) ==
    FindFrom(Chars(" " \o all_text \o " "), have_dateutil, 1)

\* The pages a date is looked for in
DatePagePool ==
    {"Effective Date: March 3, 2021",
     "Effective Date: February 30, 2021",
     "dated Mar 3, 2021",
     "Agreement Date: 2020-01-15",
     "signed on 2021-02-30",
     "on 2019-12-31 by the parties",
     "made and entered as of June 9, 2020",
     "EFFECTIVE AS OF  April 1, 2022 ",
     "Effective Date 2024-02-29",
     "updated December 25, 20201 and 2020-1-15"}

\* The most pages
MaxDatePages == 2

InitDate ==
    /\ pc = "call" /\ AsmIdle /\ result = None
    /\ args \in {[pages |-> pp, have_dateutil |-> du] :
                    pp \in SeqsUpTo(DatePagePool, MaxDatePages), du \in BOOLEAN}

CallFindEffectiveDate ==
    Return(find_effective_date(JoinLines(args.pages), args.have_dateutil))

NextDate == CallFindEffectiveDate

SpecDate == InitDate /\ [][NextDate]_vars

\* A string YYYY-MM-DD that denotes a date of the calendar
IsCalendarDate(s) ==
    /\ Len(s) = 10
    /\ IsoEnd(Chars(s), 1) = 11
    /\ IsoFields(Chars(s)).m \in 1..12
    /\ IsoFields(Chars(s)).d \in 1..DaysIn(IsoFields(Chars(s)).y, IsoFields(Chars(s)).m)

\* C4: find_effective_date returns None or a string YYYY-MM-DD that denotes a
\* real date of the calendar.
C4_EffectiveDateIsCalendarDate ==
    pc = "return" => (result = None \/ IsCalendarDate(result))

\* What a pattern yields on a text: the date of its leftmost match, formatted
\* if it parses, as matched if it does not parse and is a strict YYYY-MM-DD
\* token, and nothing otherwise.
PatternYield(pat, txt, have_dateutil) ==
    LET m == re_search(pat, Chars(" " \o txt \o " "))
        dt == IF have_dateutil THEN date_parser_parse(m.date_str) ELSE strptime(m.date_str)
    IN IF ~m.ok THEN None
       ELSE IF dt.ok THEN strftime(dt)
       ELSE IF IsIsoToken(m.date_str) THEN m.date_str
       ELSE None

\* C5: the result is what the first pattern of DATE_PATTERNS that yields a
\* date yields, and None if no pattern yields one; in particular, when the
\* leftmost "Effective Date" phrase is followed by a long-form date that
\* parses, the result is that date, whatever ISO dates the text holds.
C5_DatePrecedence ==
    pc = "return" =>
        LET yield == [k \in 1..8 |->
                        PatternYield(DATE_PATTERNS[k], JoinLines(args.pages), args.have_dateutil)]
            yielding == {k \in 1..8 : yield[k] # None}
        IN /\ IF yielding = {} THEN result = None
              ELSE result = yield[CHOOSE k \in yielding : \A j \in yielding : k <= j]
           /\ yield[1] # None => result = yield[1]

\* C5, witness: a bare ISO date stands before the phrase-anchored long-form
\* date, and the long-form date is returned.
C5_Witness ==
    /\ pc = "return"
    /\ args.pages = <<"on 2019-12-31 by the parties", "Effective Date: March 3, 2021">>
    /\ result = "2021-03-03"

-----------------------------------------------------------------------------
(* Title, parse_contract and main                                           *)

TitleKeywords ==
    {"AGREEMENT", "CONTRACT", "NDA", "AMENDMENT", "STATEMENT OF WORK", "LICENSE", "LEASE"}

\* TITLE_RE.search(line): a keyword stands somewhere in the line, in any case
TITLE_RE_search(line) ==
    \E p \in 1..Len(line) : \E w \in TitleKeywords : LitAt(Chars(line), p, w, TRUE)

\* Path(p).name: what follows the last "/"
PathName(path) ==
    LET cs == Chars(path)
        slashes == {i \in 1..Len(cs) : cs[i] = "/"}
    IN IF slashes = {} THEN path
       ELSE Str(From(cs, (CHOOSE i \in slashes : \A j \in slashes : j <= i) + 1))

\* The stem of a name: the name without its last suffix
NameStem(name) ==
    LET cs == Chars(name)
        dots == {i \in 1..Len(cs) : cs[i] = "."}
        last == IF dots = {} THEN 0 ELSE CHOOSE i \in dots : \A j \in dots : j <= i
    IN IF 1 < last /\ last < Len(cs) THEN Str(Before(cs, last)) ELSE name

\* Path(p).stem
PathStem(path) == NameStem(PathName(path))

\* The first line of a list that holds a title keyword, as its only element,
\* or the empty list
RECURSIVE FirstTitleLine(_)
FirstTitleLine(lines) ==
    IF lines = <<>> THEN <<>>
    ELSE IF TITLE_RE_search(Head(lines)) THEN <<Head(lines)>>
    ELSE FirstTitleLine(Tail(lines))

\* guess_title after its loop: the line found, or the title of the file name
TitleFrom(found, filename) ==
    IF found # <<>> THEN <<norm_ws(found[1]), "Agreement">>
    ELSE <<str_title(str_replace(str_replace(PathStem(filename), "_", " "), "-", " ")),
           "Agreement">>

guess_title(pp, filename) ==
    TitleFrom(FirstTitleLine(IF pp # <<>> THEN splitlines(pp[1]) ELSE <<>>), filename)

\* The clauses of a section in the output document
ClauseDocuments(clauses) ==
    [k \in 1..Len(clauses) |->
       [text |-> clauses[k].text,
        label |-> IF Truthy(clauses[k].label) THEN clauses[k].label ELSE "",
        index |-> clauses[k].index]]

\* The sections in the output document
SectionDocuments(secs) ==
    [k \in 1..Len(secs) |->
       [title |-> secs[k].title,
        number |-> IF Truthy(secs[k].number) THEN secs[k].number ELSE None,
        clauses |-> ClauseDocuments(secs[k].clauses)]]

\* parse_contract on the pages extract_text_pages returned
parse_contract(pdf_path, pp, have_dateutil) ==
    [title |-> guess_title(pp, PathName(pdf_path))[1],
     contract_type |-> guess_title(pp, PathName(pdf_path))[2],
     effective_date |-> find_effective_date(JoinLines(pp), have_dateutil),
     sections |-> SectionDocuments(parse_sections(pp))]

\* The title of main's fallback document
FallbackTitle(in_pdf) == str_title(str_replace(PathStem(in_pdf), "_", " "))

\* main's fallback document
Fallback(in_pdf) ==
    [title |-> FallbackTitle(in_pdf), contract_type |-> "Agreement",
     effective_date |-> None, sections |-> <<>>]

\* main(argv), argv[1] being the program's name: the return code, and the
\* document written and the path it is written to. exists: the input path
\* exists; extract: the pages extract_text_pages returns, or that
\* parse_contract raises.
main(argv, exists, extract, have_dateutil) ==
    IF Len(argv) # 3 THEN [rc |-> 1, out_json |-> None, written |-> None]
    ELSE IF ~exists THEN [rc |-> 0, out_json |-> argv[3], written |-> Fallback(argv[2])]
    ELSE IF extract.raises
         THEN [rc |-> 0, out_json |-> argv[3], written |-> Fallback(argv[2])]
    ELSE [rc |-> 0, out_json |-> argv[3],
          written |-> parse_contract(argv[2], extract.pages, have_dateutil)]

\* The input paths
InputPaths ==
    {"my-contract.pdf", "lease_agreement_v2.pdf", "NDA.pdf",
     "docs/service-level_terms.final.pdf", "scans/master_services", ".hidden"}

\* The most elements of argv
MaxArgv == 4

\* argv of n elements
ArgvOf(n, in_pdf) ==
    [i \in 1..n |->
       IF i = 1 THEN "mitali_jadhav.py" ELSE IF i = 2 THEN in_pdf
       ELSE IF i = 3 THEN "output.json" ELSE "extra"]

\* What the text extraction does
Extractions ==
    {[raises |-> TRUE, pages |-> <<>>],
     [raises |-> FALSE, pages |-> <<>>],
     [raises |-> FALSE,
      pages |-> <<"MASTER SERVICES AGREEMENT\nEffective Date: March 3, 2021\n1. Payment Terms\nTenant shall: a. pay rent; b. keep premises">>],
     [raises |-> FALSE,
      pages |-> <<"Cover sheet", "signed on 2021-02-30\nGoverning Law\n(a) New York">>]}

InitMain ==
    /\ pc = "call" /\ AsmIdle /\ result = None
    /\ args \in {[argv |-> ArgvOf(n, f), exists |-> x, extract |-> e, have_dateutil |-> du] :
                    n \in 1..MaxArgv, f \in InputPaths, x \in BOOLEAN,
                    e \in Extractions, du \in BOOLEAN}

CallMain == Return(main(args.argv, args.exists, args.extract, args.have_dateutil))

NextMain == CallMain

SpecMain == InitMain /\ [][NextMain]_vars

\* C6: with two arguments and an input path that does not exist, or a
\* parse_contract that raises, main writes the fallback document and returns
\* 0; the title of the document is the file's base name with "_" and "-"
\* replaced by blanks, in title case, which is the title guess_title falls
\* back to; main returns 1 only when the number of arguments is wrong.
C6_FallbackDocument ==
    pc = "return" =>
        /\ result.rc = 1 <=> Len(args.argv) # 3
        /\ (Len(args.argv) = 3 /\ (~args.exists \/ args.extract.raises)) =>
             /\ result.rc = 0
             /\ result.written =
                  [title |-> str_title(str_replace(str_replace(PathStem(args.argv[2]),
                                                               "_", " "), "-", " ")),
                   contract_type |-> "Agreement", effective_date |-> None,
                   sections |-> <<>>]
             /\ result.written.title = guess_title(<<>>, args.argv[2])[1]

=============================================================================
